---- MODULE Spec2Model ----
(***************************************************************************)
(* Model of the axum-testing service: the two Record Handlers of           *)
(* src/main.rs (get_user_handler, create_user_handler), the AppDatabase    *)
(* wrapper of src/database.rs (find_one, insert_one) and the User wire     *)
(* format.  The MongoDB client behind AppDatabase is the environment: it   *)
(* answers each forwarded call with a result or with an error.             *)
(*                                                                         *)
(* Every request is an independently scheduled task.  A handler runs       *)
(* without interruption up to its single .await on the storage call and    *)
(* again from the client's answer to its response, so each handler is two  *)
(* actions (Call, Resume) with the client's step between them.             *)
(***************************************************************************)
EXTENDS Integers, Sequences, FiniteSets, TLC

VARIABLES
    database,    \* the Arc<AppDatabase> handle held in the router state
    store,       \* external store: <<db, coll>> -> sequence of documents
    oidCounter,  \* number of ObjectIds the driver has generated
    pc,          \* per request: position of its task
    req,         \* per request: the HTTP request on the wire
    payload,     \* per request: the User the Json extractor produced
    calls,       \* per request: the Storage Port calls the handler made
    clientReq,   \* per request: the call AppDatabase forwarded to the client
    clientResp,  \* per request: the client's answer
    portResult,  \* per request: what AppDatabase returned to its caller
    response     \* per request: the HTTP response

vars == <<database, store, oidCounter, pc, req, payload, calls,
          clientReq, clientResp, portResult, response>>

-----------------------------------------------------------------------------
(* Bounds *)

NumReqs == 2

Reqs == 1..NumReqs

-----------------------------------------------------------------------------
(* Values *)

DB_NAME == "myDB"

coll_name == "users"

\* Option<T>: None is the empty sequence, Some(x) the one-element sequence.
None == <<>>

Some(x) == <<x>>

\* Result<T, E>: a record with the one field ok, or with the one field err.
Ok(x) == [ok |-> x]

Err(e) == [err |-> e]

IsOk(result) == "ok" \in DOMAIN result

\* JSON / BSON values: a record with one field, named after the kind.
Num(n) == [num |-> n]

Str(s) == [str |-> s]

Bool(b) == [bool |-> b]

Null == [null |-> TRUE]

ObjectId(bytes) == [oid |-> bytes]

IsKind(x, kind) == kind \in DOMAIN x

\* The User struct.
User(id, name, phone, email, is_active) ==
    [id |-> id, name |-> name, phone |-> phone, email |-> email,
     is_active |-> is_active]

\* Users that requests carry: the handler's fixed id without an email, the
\* test's id with one.
Users ==
    { User(76, "Sibaprasad", "56565656", None, TRUE),
      User(200075, "", "", Some("s@example.com"), FALSE) }

\* Variant of SerializeUser without skip_serializing_if: None is written
\* as null.
SerializeUserNullEmail(u) ==
    [id |-> Num(u.id), name |-> Str(u.name), phone |-> Str(u.phone),
     email |-> IF u.email = None THEN Null ELSE Str(u.email[1]),
     isActive |-> Bool(u.is_active)]

\* Serialize for User: email is skipped when None, is_active is renamed.
SerializeUser(u) ==
    IF u.email = None
    THEN [id |-> Num(u.id), name |-> Str(u.name), phone |-> Str(u.phone),
          isActive |-> Bool(u.is_active)]
    ELSE [id |-> Num(u.id), name |-> Str(u.name), phone |-> Str(u.phone),
          email |-> Str(u.email[1]), isActive |-> Bool(u.is_active)]

HasField(obj, k, kind) == k \in DOMAIN obj /\ IsKind(obj[k], kind)

\* Deserialize for User: id, name, phone and isActive are required and
\* typed; email may be missing or null (None) or a string; other keys are
\* ignored.  id is a u32: a negative number is refused (every number of the
\* model is below 2^31, so the upper end of u32 is never passed).
DeserializeUser(obj) ==
    IF /\ HasField(obj, "id", "num") /\ obj["id"].num >= 0
       /\ HasField(obj, "name", "str")
       /\ HasField(obj, "phone", "str")
       /\ HasField(obj, "isActive", "bool")
       /\ ("email" \in DOMAIN obj =>
              IsKind(obj["email"], "str") \/ IsKind(obj["email"], "null"))
    THEN Ok(User(obj["id"].num, obj["name"].str, obj["phone"].str,
                 IF HasField(obj, "email", "str")
                 THEN Some(obj["email"].str) ELSE None,
                 obj["isActive"].bool))
    ELSE Err("Deserialize")

-----------------------------------------------------------------------------
(* ObjectId and its hexadecimal form *)

HexDigits == "0123456789abcdef"

HexDigit(n) == SubSeq(HexDigits, n + 1, n + 1)

RECURSIVE to_hex_from(_, _)
to_hex_from(bytes, i) ==
    IF i > Len(bytes) THEN ""
    ELSE HexDigit(bytes[i] \div 16) \o HexDigit(bytes[i] % 16)
         \o to_hex_from(bytes, i + 1)

\* ObjectId::to_hex: two lowercase hexadecimal digits per byte.
to_hex(bytes) == to_hex_from(bytes, 1)

\* The n-th ObjectId the driver generates: twelve bytes, a fixed timestamp
\* and process part followed by the counter.
Oid(n) ==
    [i \in 1..12 |->
        IF i = 12 THEN n % 256
        ELSE <<101, 71, 10, 0, 171, 205, 239, 1, 35, 0, 0>>[i]]

-----------------------------------------------------------------------------
(* The external store and the MongoDB client in front of it *)

DbNames == {DB_NAME, "otherDB"}

CollNames == {coll_name, "audit"}

Namespaces == DbNames \X CollNames

\* Failures of the connection or of the server, as the client reports them.
\* No server was selected (nothing was sent), or the connection broke (the
\* call may have been carried out before).
StorageErrors == {"ServerSelection", "Io"}

\* The record types T that find_one::<T> and insert_one::<T> are used with.
Encode(ty, value) == IF ty = "User" THEN SerializeUser(value) ELSE value

Decode(ty, doc) == IF ty = "User" THEN DeserializeUser(doc) ELSE Ok(doc)

\* A filter is an Option<Document> of field-equality constraints.
Matches(doc, filter) ==
    \/ filter = None
    \/ \A k \in DOMAIN filter[1] : k \in DOMAIN doc /\ doc[k] = filter[1][k]

\* Collection::<T>::find_one: the first matching document, decoded as T.
Collection_find_one(st, r) ==
    LET c == st[<<r.db, r.coll>>]
        hits == {j \in 1..Len(c) : Matches(c[j], r.arg)}
    IN  IF hits = {} THEN Ok(None)
        ELSE LET first == CHOOSE j \in hits : \A k \in hits : j <= k
                 dec == Decode(r.ty, c[first])
             IN  IF IsOk(dec) THEN Ok(Some(dec.ok)) ELSE Err("BsonDeserialization")

\* The document Collection::<T>::insert_one writes: the encoded value, with
\* a generated ObjectId as _id when the value carries none.
InsertedDoc(r, n) ==
    LET body == Encode(r.ty, r.arg)
    IN  IF "_id" \in DOMAIN body THEN body
        ELSE body @@ [_id |-> ObjectId(Oid(n))]

DuplicateKey(st, r, n) ==
    \E j \in 1..Len(st[<<r.db, r.coll>>]) :
        st[<<r.db, r.coll>>][j]["_id"] = InsertedDoc(r, n)["_id"]

StoreAfterInsert(st, r, n) ==
    [st EXCEPT ![<<r.db, r.coll>>] = Append(@, InsertedDoc(r, n))]

-----------------------------------------------------------------------------
(* AppDatabase (src/database.rs) *)

\* find_one: the call forwarded to the client's collection handle.
find_one_request(db, coll, ty, filter, options) ==
    [op |-> "find_one", db |-> db, coll |-> coll, ty |-> ty,
     arg |-> filter, options |-> options]

\* find_one: the client's result is returned as it is.
find_one(result) == result

\* Variant of insert_one_request that ignores the names it is given.
insert_one_request_fixed_names(db, coll, ty, doc, options) ==
    [op |-> "insert_one", db |-> DB_NAME, coll |-> coll_name, ty |-> ty,
     arg |-> doc, options |-> options]

\* insert_one: the call forwarded to the client's collection handle.
insert_one_request(db, coll, ty, doc, options) ==
    [op |-> "insert_one", db |-> db, coll |-> coll, ty |-> ty,
     arg |-> doc, options |-> options]

\* Variant of insert_one that refuses an identifier that is no ObjectId.
insert_one_strict(result) ==
    IF ~IsOk(result) THEN Err(result.err)
    ELSE IF IsKind(result.ok, "oid")
         THEN Ok([inserted_id |-> to_hex(result.ok.oid)])
         ELSE Err("InvalidId")

\* Variant of insert_one that answers a failed write like an identifier
\* that is no ObjectId.
insert_one_lenient(result) ==
    IF IsOk(result) /\ IsKind(result.ok, "oid")
    THEN Ok([inserted_id |-> to_hex(result.ok.oid)])
    ELSE Ok([inserted_id |-> ""])

\* insert_one: an error is returned by `?`; an ObjectId becomes its hex
\* string, any other identifier the empty string.
insert_one(result) ==
    IF ~IsOk(result) THEN Err(result.err)
    ELSE IF IsKind(result.ok, "oid")
         THEN Ok([inserted_id |-> to_hex(result.ok.oid)])
         ELSE Ok([inserted_id |-> ""])

-----------------------------------------------------------------------------
(* Initial state *)

\* A document of a User as the store holds it, with the _id of an earlier
\* insert.
Stored(u, n) == SerializeUser(u) @@ [_id |-> ObjectId(Oid(n))]

\* A document of the users collection that is no User: phone and isActive
\* are missing.
Malformed76 == [_id |-> ObjectId(Oid(203)), id |-> Num(76), name |-> Str("x")]

\* What the users collection may hold when the service starts.
InitialUsers ==
    { <<>>,
      <<Stored(User(200075, "Sibaprasad", "56565656", None, TRUE), 200),
        Stored(User(76, "", "", Some("s@example.com"), FALSE), 201),
        Stored(User(76, "Sibaprasad", "56565656", None, TRUE), 202)>>,
      <<Malformed76>> }

NoReq == [method |-> "none"]

NoResponse == [status |-> 0]

Init ==
    /\ database = [client |-> "MONGODB_URI"]
    /\ \E users \in InitialUsers :
           store = [ns \in Namespaces |->
                       IF ns = <<DB_NAME, coll_name>> THEN users ELSE <<>>]
    /\ oidCounter = 0
    /\ pc = [i \in Reqs |-> "idle"]
    /\ req = [i \in Reqs |-> NoReq]
    /\ payload = [i \in Reqs |-> None]
    /\ calls = [i \in Reqs |-> <<>>]
    /\ clientReq = [i \in Reqs |-> None]
    /\ clientResp = [i \in Reqs |-> None]
    /\ portResult = [i \in Reqs |-> None]
    /\ response = [i \in Reqs |-> NoResponse]

-----------------------------------------------------------------------------
(* HTTP requests *)

\* sent is the User the client serialized into the body, if it did.
Get(query) == [method |-> "GET", query |-> query, body |-> None, sent |-> None]

Post(u) ==
    [method |-> "POST", query |-> "", body |-> Some(SerializeUser(u)),
     sent |-> Some(u)]

PostBody(b) == [method |-> "POST", query |-> "", body |-> Some(b), sent |-> None]

\* A body with a missing phone: no User.
NoPhone == [id |-> Num(76), name |-> Str("n"), isActive |-> Bool(TRUE)]

Requests ==
    {Get(""), Get("id=200075")} \cup {Post(u) : u \in Users}
        \cup {PostBody(NoPhone)}

\* A request of the set rs arrives on the route /user.  Requests are
\* numbered in the order of their arrival.
ArriveFrom(i, rs) ==
    /\ pc[i] = "idle"
    /\ \A j \in Reqs : j < i => pc[j] # "idle"
    /\ \E r \in rs : req' = [req EXCEPT ![i] = r]
    /\ pc' = [pc EXCEPT ![i] = "received"]
    /\ UNCHANGED <<database, store, oidCounter, payload, calls, clientReq,
                   clientResp, portResult, response>>

Arrive(i) == ArriveFrom(i, Requests)

-----------------------------------------------------------------------------
(* The MongoDB client: one step per forwarded call *)

ClientFindOne(i) ==
    /\ pc[i] = "awaiting"
    /\ clientReq[i] # None
    /\ clientReq[i][1].op = "find_one"
    /\ \/ clientResp' = [clientResp EXCEPT
                            ![i] = Some(Collection_find_one(store, clientReq[i][1]))]
       \/ \E e \in StorageErrors :
              clientResp' = [clientResp EXCEPT ![i] = Some(Err(e))]
    /\ pc' = [pc EXCEPT ![i] = "replied"]
    /\ UNCHANGED <<database, store, oidCounter, req, payload, calls, clientReq,
                   portResult, response>>

ClientInsertOne(i) ==
    /\ pc[i] = "awaiting"
    /\ clientReq[i] # None
    /\ clientReq[i][1].op = "insert_one"
    /\ LET r == clientReq[i][1]
           n == oidCounter
       IN  /\ oidCounter' = IF "_id" \in DOMAIN Encode(r.ty, r.arg) THEN n ELSE n + 1
           /\ \/ /\ ~DuplicateKey(store, r, n)
                 /\ store' = StoreAfterInsert(store, r, n)
                 /\ clientResp' = [clientResp EXCEPT
                                      ![i] = Some(Ok(InsertedDoc(r, n)["_id"]))]
              \/ /\ DuplicateKey(store, r, n)
                 /\ store' = store
                 /\ clientResp' = [clientResp EXCEPT ![i] = Some(Err("DuplicateKey"))]
              \/ \E e \in StorageErrors, written \in BOOLEAN :
                     /\ written => e = "Io" /\ ~DuplicateKey(store, r, n)
                     /\ store' = IF written THEN StoreAfterInsert(store, r, n)
                                 ELSE store
                     /\ clientResp' = [clientResp EXCEPT ![i] = Some(Err(e))]
    /\ pc' = [pc EXCEPT ![i] = "replied"]
    /\ UNCHANGED <<database, req, payload, calls, clientReq, portResult, response>>

-----------------------------------------------------------------------------
(* Record Handlers (src/main.rs) *)

Json(x) == [json |-> x]

\* Variant of awaited with one slot for all answers: the oldest answer not
\* yet taken is read.
awaited_latest(i) ==
    LET replied == {j \in Reqs : pc[j] = "replied" /\ req[j].method = req[i].method}
    IN  clientResp[CHOOSE j \in replied : \A k \in replied : j <= k][1]

\* The result the .await of request i yields: the answer to its own call.
awaited(i) == clientResp[i][1]

\* Variant of get_user_call with another id in the filter.
get_user_call_other_id ==
    [op |-> "find_one", db |-> DB_NAME, coll |-> coll_name,
     arg |-> Some([id |-> Num(67)]), options |-> None]

\* get_user_handler: the arguments of its find_one call.
get_user_call ==
    [op |-> "find_one", db |-> DB_NAME, coll |-> coll_name,
     arg |-> Some([id |-> Num(76)]), options |-> None]

\* Variant of get_user_outcome that answers "not found" with 404.
get_user_outcome_404(result) ==
    IF ~IsOk(result)
    THEN [pc |-> "aborted", response |-> NoResponse]
    ELSE IF result.ok = None
         THEN [pc |-> "done",
               response |-> [status |-> 404,
                             body |-> Json([success |-> Bool(FALSE)])]]
         ELSE [pc |-> "done",
               response |-> [status |-> 200,
                             body |-> Json(SerializeUser(result.ok[1]))]]

\* get_user_handler: result.unwrap() panics on an error, the second
\* unwrap() on None; else 200 with the User as JSON.
get_user_outcome(result) ==
    IF ~IsOk(result) \/ result.ok = None
    THEN [pc |-> "aborted", response |-> NoResponse]
    ELSE [pc |-> "done",
          response |-> [status |-> 200,
                        body |-> Json(SerializeUser(result.ok[1]))]]

\* Variant of create_user_call with another collection name.
create_user_call_other_coll(user) ==
    [op |-> "insert_one", db |-> DB_NAME, coll |-> "audit",
     arg |-> user, options |-> None]

\* create_user_handler: the arguments of its insert_one call.
create_user_call(user) ==
    [op |-> "insert_one", db |-> DB_NAME, coll |-> coll_name,
     arg |-> user, options |-> None]

\* Variant of create_user_response with the error's text as the message.
create_user_response_leaking(result) ==
    IF ~IsOk(result)
    THEN [status |-> 500,
          body |-> Json([success |-> Bool(FALSE), message |-> Str(result.err)])]
    ELSE [status |-> 200,
          body |-> Json([success |-> Bool(TRUE),
                         insertedID |-> Str(result.ok.inserted_id)])]

\* create_user_handler: 500 with a fixed body on an error, else 200 with
\* the inserted id.
create_user_response(result) ==
    IF ~IsOk(result)
    THEN [status |-> 500,
          body |-> Json([success |-> Bool(FALSE),
                         message |-> Str("Unexpected error")])]
    ELSE [status |-> 200,
          body |-> Json([success |-> Bool(TRUE),
                         insertedID |-> Str(result.ok.inserted_id)])]

\* get_user_handler up to the .await: the call to find_one.
GetCall(i) ==
    /\ pc[i] = "received"
    /\ req[i].method = "GET"
    /\ LET c == get_user_call
       IN  /\ calls' = [calls EXCEPT ![i] = Append(@, c)]
           /\ clientReq' = [clientReq EXCEPT ![i] =
                  Some(find_one_request(c.db, c.coll, "User", c.arg, c.options))]
    /\ pc' = [pc EXCEPT ![i] = "awaiting"]
    /\ UNCHANGED <<database, store, oidCounter, req, payload, clientResp,
                   portResult, response>>

\* get_user_handler from the client's answer to its end.
GetResume(i) ==
    /\ pc[i] = "replied"
    /\ req[i].method = "GET"
    /\ LET result == find_one(awaited(i))
           outcome == get_user_outcome(result)
       IN  /\ portResult' = [portResult EXCEPT ![i] = Some(result)]
           /\ pc' = [pc EXCEPT ![i] = outcome.pc]
           /\ response' = [response EXCEPT ![i] = outcome.response]
    /\ UNCHANGED <<database, store, oidCounter, req, payload, calls, clientReq,
                   clientResp>>

\* The Json<User> extractor refuses a body that is no User; the handler
\* does not run.
Reject(i) ==
    /\ pc[i] = "received"
    /\ req[i].method = "POST"
    /\ ~IsOk(DeserializeUser(req[i].body[1]))
    /\ pc' = [pc EXCEPT ![i] = "rejected"]
    /\ response' = [response EXCEPT ![i] =
                       [status |-> 422, body |-> [text |-> "JsonDataError"]]]
    /\ UNCHANGED <<database, store, oidCounter, req, payload, calls, clientReq,
                   clientResp, portResult>>

\* create_user_handler up to the .await: the extracted payload and the call
\* to insert_one.
CreateCall(i) ==
    /\ pc[i] = "received"
    /\ req[i].method = "POST"
    /\ IsOk(DeserializeUser(req[i].body[1]))
    /\ LET user == DeserializeUser(req[i].body[1]).ok
           c == create_user_call(user)
       IN  /\ payload' = [payload EXCEPT ![i] = Some(user)]
           /\ calls' = [calls EXCEPT ![i] = Append(@, c)]
           /\ clientReq' = [clientReq EXCEPT ![i] =
                  Some(insert_one_request(c.db, c.coll, "User", c.arg, c.options))]
    /\ pc' = [pc EXCEPT ![i] = "awaiting"]
    /\ UNCHANGED <<database, store, oidCounter, req, clientResp, portResult,
                   response>>

\* Variant of CreateResume that repeats a failed call once.
CreateResumeRetrying(i) ==
    /\ pc[i] = "replied"
    /\ req[i].method = "POST"
    /\ LET result == insert_one(awaited(i))
       IN  IF ~IsOk(result) /\ Len(calls[i]) < 2
           THEN /\ calls' = [calls EXCEPT ![i] = Append(@, calls[i][1])]
                /\ pc' = [pc EXCEPT ![i] = "awaiting"]
                /\ UNCHANGED <<portResult, response>>
           ELSE /\ portResult' = [portResult EXCEPT ![i] = Some(result)]
                /\ response' = [response EXCEPT ![i] = create_user_response(result)]
                /\ pc' = [pc EXCEPT ![i] = "done"]
                /\ calls' = calls
    /\ UNCHANGED <<database, store, oidCounter, req, payload, clientReq,
                   clientResp>>

\* create_user_handler from the client's answer to its response.
CreateResume(i) ==
    /\ pc[i] = "replied"
    /\ req[i].method = "POST"
    /\ LET result == insert_one(awaited(i))
       IN  /\ portResult' = [portResult EXCEPT ![i] = Some(result)]
           /\ response' = [response EXCEPT ![i] = create_user_response(result)]
    /\ pc' = [pc EXCEPT ![i] = "done"]
    /\ UNCHANGED <<database, store, oidCounter, req, payload, calls, clientReq,
                   clientResp>>

\* The TimeoutLayer around the router: a request still waiting for the
\* client is abandoned and answered 408; its task is dropped.
Timeout(i) ==
    /\ pc[i] = "awaiting"
    /\ pc' = [pc EXCEPT ![i] = "timedout"]
    /\ response' = [response EXCEPT ![i] = [status |-> 408, body |-> [text |-> ""]]]
    /\ UNCHANGED <<database, store, oidCounter, req, payload, calls, clientReq,
                   clientResp, portResult>>

\* The call of an abandoned request: nobody reads its answer; an insert
\* already sent may still be written.
ClientAbandoned(i) ==
    /\ pc[i] = "timedout"
    /\ clientReq[i] # None
    /\ LET r == clientReq[i][1]
           n == oidCounter
       IN  IF r.op = "insert_one"
           THEN /\ oidCounter' = n + 1
                /\ \E written \in BOOLEAN :
                       store' = IF written THEN StoreAfterInsert(store, r, n)
                                ELSE store
           ELSE UNCHANGED <<store, oidCounter>>
    /\ clientReq' = [clientReq EXCEPT ![i] = None]
    /\ UNCHANGED <<database, pc, req, payload, calls, clientResp, portResult,
                   response>>

Next ==
    \/ \E i \in Reqs : Arrive(i)
    \/ \E i \in Reqs : GetCall(i)
    \/ \E i \in Reqs : ClientFindOne(i)
    \/ \E i \in Reqs : GetResume(i)
    \/ \E i \in Reqs : Reject(i)
    \/ \E i \in Reqs : CreateCall(i)
    \/ \E i \in Reqs : ClientInsertOne(i)
    \/ \E i \in Reqs : CreateResume(i)
    \/ \E i \in Reqs : Timeout(i)
    \/ \E i \in Reqs : ClientAbandoned(i)

Spec == Init /\ [][Next]_vars

-----------------------------------------------------------------------------
(* AppDatabase called directly, one call after the other, with the record  *)
(* types and the namespaces a caller may choose                            *)

\* Documents a caller inserts as they are: with a string _id, with an
\* ObjectId _id that the initial users collection may hold already, and
\* without an _id.
Documents ==
    { [_id |-> Str("key-1"), id |-> Num(76)],
      [_id |-> ObjectId(Oid(201)), id |-> Num(7)],
      [id |-> Num(76), note |-> Str("no _id")] }

DirectNamespaces == {<<DB_NAME, coll_name>>, <<"otherDB", "audit">>}

\* The arguments of the calls a caller makes, with the record type T.
DirectFinds ==
    { [op |-> "find_one", db |-> ns[1], coll |-> ns[2], ty |-> f[1],
       arg |-> f[2], options |-> None] :
        ns \in DirectNamespaces,
        f \in {<<"User", Some([id |-> Num(76)])>>, <<"Document", None>>} }

DirectInserts ==
    { [op |-> "insert_one", db |-> ns[1], coll |-> ns[2], ty |-> d[1],
       arg |-> d[2], options |-> None] :
        ns \in DirectNamespaces,
        d \in ({"User"} \X {u \in Users : u.email = None})
              \cup ({"Document"} \X Documents) }

\* The caller invokes AppDatabase with one of the calls rs once the call
\* before it has returned.
DirectCall(i, rs) ==
    /\ pc[i] = "idle"
    /\ \A j \in Reqs : j < i => pc[j] = "returned"
    /\ \E r \in rs :
           /\ calls' = [calls EXCEPT ![i] = Append(@,
                          [op |-> r.op, db |-> r.db, coll |-> r.coll,
                           arg |-> r.arg, options |-> r.options])]
           /\ clientReq' = [clientReq EXCEPT ![i] =
                  Some(IF r.op = "find_one"
                       THEN find_one_request(r.db, r.coll, r.ty, r.arg, r.options)
                       ELSE insert_one_request(r.db, r.coll, r.ty, r.arg,
                                               r.options))]
    /\ pc' = [pc EXCEPT ![i] = "awaiting"]
    /\ UNCHANGED <<database, store, oidCounter, req, payload, clientResp,
                   portResult, response>>

DirectFind(i) == DirectCall(i, DirectFinds)

DirectInsert(i) == DirectCall(i, DirectInserts)

\* find_one or insert_one returns to the caller.
DirectReturn(i) ==
    /\ pc[i] = "replied"
    /\ req[i] = NoReq
    /\ portResult' = [portResult EXCEPT ![i] =
                         Some(IF clientReq[i][1].op = "find_one"
                              THEN find_one(clientResp[i][1])
                              ELSE insert_one(clientResp[i][1]))]
    /\ pc' = [pc EXCEPT ![i] = "returned"]
    /\ UNCHANGED <<database, store, oidCounter, req, payload, calls, clientReq,
                   clientResp, response>>

NextDb ==
    \/ \E i \in Reqs : DirectFind(i)
    \/ \E i \in Reqs : DirectInsert(i)
    \/ \E i \in Reqs : ClientFindOne(i)
    \/ \E i \in Reqs : ClientInsertOne(i)
    \/ \E i \in Reqs : DirectReturn(i)

SpecDb == Init /\ [][NextDb]_vars

-----------------------------------------------------------------------------
(* The wire format alone: the first request, drawn from a wider set of     *)
(* bodies, up to the end of the Json extractor                             *)

WireUsers ==
    { User(id, name, phone, email, is_active) :
        id \in {0, 76, 200075}, name \in {"", "Sibaprasad"},
        phone \in {"", "56565656"},
        email \in {None, Some(""), Some("s@example.com")},
        is_active \in BOOLEAN }

\* Bodies no serializer of this service produced: an explicit null email (a
\* valid User), a missing phone, a negative id, an email that is a number.
OtherBodies ==
    { [id |-> Num(76), name |-> Str("n"), phone |-> Str("p"),
       email |-> Null, isActive |-> Bool(TRUE)],
      NoPhone,
      [id |-> Num(-1), name |-> Str("n"), phone |-> Str("p"),
       isActive |-> Bool(FALSE)],
      [id |-> Num(76), name |-> Str("n"), phone |-> Str("p"),
       email |-> Num(5), isActive |-> Bool(TRUE)] }

WireRequests == {Post(u) : u \in WireUsers} \cup {PostBody(b) : b \in OtherBodies}

ArriveWire(i) == i = 1 /\ ArriveFrom(i, WireRequests)

NextWire ==
    \/ \E i \in Reqs : ArriveWire(i)
    \/ \E i \in Reqs : Reject(i)
    \/ \E i \in Reqs : CreateCall(i)

SpecWire == Init /\ [][NextWire]_vars

-----------------------------------------------------------------------------
(* Properties *)

IsGet(i) == req[i].method = "GET"

IsPost(i) == req[i].method = "POST"

\* The Storage Port call of request i has returned.
Returned(i) == portResult[i] # None

PortOk(i) == Returned(i) /\ IsOk(portResult[i][1])

PortErr(i) == Returned(i) /\ ~IsOk(portResult[i][1])

\* The value of one lowercase hexadecimal digit.
HexValue(c) ==
    CASE c = "0" -> 0 [] c = "1" -> 1 [] c = "2" -> 2 [] c = "3" -> 3
      [] c = "4" -> 4 [] c = "5" -> 5 [] c = "6" -> 6 [] c = "7" -> 7
      [] c = "8" -> 8 [] c = "9" -> 9 [] c = "a" -> 10 [] c = "b" -> 11
      [] c = "c" -> 12 [] c = "d" -> 13 [] c = "e" -> 14 [] c = "f" -> 15
      [] OTHER -> -1000

\* s is the hexadecimal string of bytes: two digits a byte, in order.
IsHexOf(s, bytes) ==
    /\ Len(s) = 2 * Len(bytes)
    /\ \A k \in 1..Len(bytes) :
           16 * HexValue(SubSeq(s, 2 * k - 1, 2 * k - 1))
              + HexValue(SubSeq(s, 2 * k, 2 * k)) = bytes[k]

\* obj is the User u in the wire shape.
WireShape(u, obj) ==
    /\ DOMAIN obj = {"id", "name", "phone", "isActive"}
                        \cup (IF u.email = None THEN {} ELSE {"email"})
    /\ obj["id"] = [num |-> u.id]
    /\ obj["name"] = [str |-> u.name]
    /\ obj["phone"] = [str |-> u.phone]
    /\ obj["isActive"] = [bool |-> u.is_active]
    /\ u.email # None => obj["email"] = [str |-> u.email[1]]

\* C1: a Create-User request whose insert_one returned Ok(X) made exactly
\* one Storage Port call, insert_one("myDB", "users", R, None) with R the
\* Record of the request, and is answered 200 with the body
\* {success: true, insertedID: X.inserted_id}.
C1_CreateSuccess ==
    \A i \in Reqs :
        (IsPost(i) /\ PortOk(i)) =>
            /\ Len(calls[i]) = 1
            /\ calls[i][1].op = "insert_one"
            /\ calls[i][1].db = "myDB"
            /\ calls[i][1].coll = "users"
            /\ calls[i][1].arg = payload[i][1]
            /\ calls[i][1].options = None
            /\ req[i].sent # None => calls[i][1].arg = req[i].sent[1]
            /\ pc[i] = "done"
            /\ response[i].status = 200
            /\ response[i].body =
                   [json |-> [success |-> [bool |-> TRUE],
                              insertedID |->
                                  [str |-> portResult[i][1].ok.inserted_id]]]

C1_Witness ==
    \E i \in Reqs :
        /\ IsPost(i) /\ PortOk(i)
        /\ response[i].status = 200
        /\ Len(response[i].body.json.insertedID.str) = 24

\* C2: a Create-User request whose insert_one failed is answered 500 with
\* the body {success: false, message: "Unexpected error"}, whatever the
\* error, and its handler ends normally.
C2_CreateFailure ==
    \A i \in Reqs :
        (IsPost(i) /\ PortErr(i)) =>
            /\ pc[i] = "done"
            /\ response[i] =
                   [status |-> 500,
                    body |-> [json |-> [success |-> [bool |-> FALSE],
                                        message |-> [str |-> "Unexpected error"]]]]

C2_Witness ==
    \E i, j \in Reqs :
        /\ IsPost(i) /\ PortErr(i) /\ IsPost(j) /\ PortErr(j)
        /\ portResult[i][1].err = "ServerSelection"
        /\ portResult[j][1].err = "Io"
        /\ response[i].status = 500
        /\ response[i] = response[j]

\* C3: a Fetch-User request that has started makes exactly one Storage Port
\* call, find_one("myDB", "users", {id: 76}, None), whatever the request
\* holds; when it returned a Record R the answer is 200 with R in the wire
\* shape.
C3_Fetch ==
    \A i \in Reqs :
        (IsGet(i) /\ pc[i] # "received") =>
            /\ Len(calls[i]) = 1
            /\ calls[i][1].op = "find_one"
            /\ calls[i][1].db = "myDB"
            /\ calls[i][1].coll = "users"
            /\ calls[i][1].arg = <<[id |-> [num |-> 76]]>>
            /\ calls[i][1].options = None
            /\ (PortOk(i) /\ portResult[i][1].ok # None) =>
                   /\ pc[i] = "done"
                   /\ response[i].status = 200
                   /\ DOMAIN response[i].body = {"json"}
                   /\ WireShape(portResult[i][1].ok[1], response[i].body.json)

C3_Witness ==
    \E i \in Reqs :
        /\ IsGet(i) /\ PortOk(i)
        /\ req[i].query = "id=200075"
        /\ portResult[i][1].ok # None
        /\ portResult[i][1].ok[1].email # None
        /\ response[i].status = 200

\* C4: a Fetch-User request whose find_one returned "not found" or failed
\* is aborted without any response, the same in both cases.
C4_FetchAborts ==
    \A i \in Reqs :
        (IsGet(i) /\ Returned(i)
            /\ (~IsOk(portResult[i][1]) \/ portResult[i][1].ok = None)) =>
            /\ pc[i] = "aborted"
            /\ response[i] = NoResponse

C4_Witness ==
    \E i, j \in Reqs :
        /\ IsGet(i) /\ PortOk(i) /\ portResult[i][1].ok = None
        /\ IsGet(j) /\ PortErr(j)
        /\ pc[i] = "aborted" /\ pc[j] = "aborted"
        /\ response[i] = response[j]

\* C5: when the client's insert succeeded, insert_one returns Ok, with the
\* hexadecimal string of the identifier when that is an ObjectId and with
\* the empty string when it is of another kind.
C5_InsertedId ==
    \A i \in Reqs :
        (/\ pc[i] = "returned"
         /\ clientReq[i][1].op = "insert_one"
         /\ IsOk(clientResp[i][1])) =>
            /\ IsOk(portResult[i][1])
            /\ IF "oid" \in DOMAIN clientResp[i][1].ok
               THEN IsHexOf(portResult[i][1].ok.inserted_id, clientResp[i][1].ok.oid)
               ELSE portResult[i][1].ok.inserted_id = ""

C5_Witness ==
    \E i, j \in Reqs :
        /\ pc[i] = "returned" /\ pc[j] = "returned"
        /\ clientReq[i][1].op = "insert_one" /\ clientReq[j][1].op = "insert_one"
        /\ IsOk(clientResp[i][1]) /\ IsOk(clientResp[j][1])
        /\ "oid" \in DOMAIN clientResp[i][1].ok
        /\ "str" \in DOMAIN clientResp[j][1].ok
        /\ Len(portResult[i][1].ok.inserted_id) = 24
        /\ portResult[j][1].ok.inserted_id = ""

\* C6: of the Create-User requests in flight together, each one whose
\* insert_one succeeded is answered 200 with the identifier of the document
\* that its own insert wrote from its own Record, no two of them with the
\* same identifier; the shared handle stays as it was constructed.
C6_Independent ==
    /\ database = [client |-> "MONGODB_URI"]
    /\ \A i \in Reqs :
           (IsPost(i) /\ pc[i] = "done" /\ IsOk(clientResp[i][1])) =>
               /\ response[i].status = 200
               /\ \E k \in 1..Len(store[<<"myDB", "users">>]) :
                      LET d == store[<<"myDB", "users">>][k]
                      IN  /\ WireShape(calls[i][1].arg,
                                       [f \in DOMAIN d \ {"_id"} |-> d[f]])
                          /\ "oid" \in DOMAIN d["_id"]
                          /\ IsHexOf(response[i].body.json.insertedID.str,
                                     d["_id"].oid)
                          /\ clientResp[i][1].ok = d["_id"]
               /\ \A j \in Reqs \ {i} :
                      (IsPost(j) /\ pc[j] = "done" /\ response[j].status = 200) =>
                          response[j].body.json.insertedID
                              # response[i].body.json.insertedID

\* Two requests with different Records, the second one's insert carried out
\* first, both answered.
C6_Witness ==
    /\ IsPost(1) /\ IsPost(2)
    /\ pc[1] = "done" /\ pc[2] = "done"
    /\ payload[1] # payload[2]
    /\ response[1].status = 200 /\ response[2].status = 200
    /\ IsHexOf(response[2].body.json.insertedID.str, Oid(0))
    /\ IsHexOf(response[1].body.json.insertedID.str, Oid(1))

\* C7: the body a client serialized from a User R is parsed to R, in all
\* five fields; when R has no email the body has no email key, and the
\* parsed User has no email.
C7_RoundTrip ==
    \A i \in Reqs :
        (req[i].method = "POST" /\ req[i].sent # None) =>
            LET R == req[i].sent[1]
            IN  /\ R.email = None => "email" \notin DOMAIN req[i].body[1]
                /\ pc[i] # "received" =>
                       /\ pc[i] # "rejected"
                       /\ payload[i] # None
                       /\ payload[i][1].id = R.id
                       /\ payload[i][1].name = R.name
                       /\ payload[i][1].phone = R.phone
                       /\ payload[i][1].email = R.email
                       /\ payload[i][1].is_active = R.is_active

C7_Witness ==
    \E i \in Reqs :
        /\ req[i].method = "POST" /\ req[i].sent # None
        /\ req[i].sent[1].email = None
        /\ req[i].sent[1].id = 200075
        /\ ~req[i].sent[1].is_active
        /\ pc[i] = "awaiting"
        /\ payload[i] = req[i].sent

\* The document d stands for the value arg of an insert_one call.
IsDocOf(d, arg) ==
    IF "is_active" \in DOMAIN arg
    THEN WireShape(arg, [f \in DOMAIN d \ {"_id"} |-> d[f]])
    ELSE /\ DOMAIN d \ {"_id"} = DOMAIN arg \ {"_id"}
         /\ \A f \in DOMAIN arg : d[f] = arg[f]

\* C8: the step that answers a find_one leaves the store as it was; the
\* step that answers an insert_one with success appends one document, the
\* record passed in, to the database and collection the caller named, and
\* changes nothing else.
C8_StoreFrame ==
    [][\A i \in Reqs :
          (pc[i] = "awaiting" /\ pc'[i] = "replied") =>
              LET c == calls[i][1]
                  ns == <<c.db, c.coll>>
              IN  IF c.op = "find_one"
                  THEN store' = store
                  ELSE IsOk(clientResp'[i][1]) =>
                          /\ Len(store'[ns]) = Len(store[ns]) + 1
                          /\ SubSeq(store'[ns], 1, Len(store[ns])) = store[ns]
                          /\ IsDocOf(store'[ns][Len(store'[ns])], c.arg)
                          /\ \A other \in Namespaces \ {ns} :
                                 store'[other] = store[other]]_vars

C8_Witness ==
    \E i, j \in Reqs :
        /\ pc[i] = "returned" /\ pc[j] = "returned"
        /\ calls[i][1].op = "insert_one" /\ PortOk(i)
        /\ calls[i][1].db = "otherDB"
        /\ Len(store[<<"otherDB", "audit">>]) = 1
        /\ calls[j][1].op = "find_one" /\ PortOk(j)
        /\ portResult[j][1].ok # None

\* C9: a request makes at most one Storage Port call; when the call failed
\* the request is over, with 500 for Create-User and aborted for
\* Fetch-User, and exactly one call was made.
C9_NoRetry ==
    \A i \in Reqs :
        /\ Len(calls[i]) <= 1
        /\ (pc[i] \in {"replied", "done", "aborted"} /\ ~IsOk(clientResp[i][1])) =>
               /\ Len(calls[i]) = 1
               /\ pc[i] # "replied" =>
                      IF IsPost(i)
                      THEN pc[i] = "done" /\ response[i].status = 500
                      ELSE pc[i] = "aborted" /\ response[i] = NoResponse

C9_Witness ==
    \E i, j \in Reqs :
        /\ IsPost(i) /\ PortErr(i) /\ pc[i] = "done" /\ Len(calls[i]) = 1
        /\ IsGet(j) /\ PortErr(j) /\ pc[j] = "aborted" /\ Len(calls[j]) = 1

\* C10: when the client's find_one or insert_one failed, AppDatabase returns
\* that error to the handler, and the request is not answered 200.
C10_ErrorsPropagate ==
    \A i \in Reqs :
        (Returned(i) /\ ~IsOk(clientResp[i][1])) =>
            /\ portResult[i][1] = [err |-> clientResp[i][1].err]
            /\ response[i].status # 200

C10_Witness ==
    \E i, j \in Reqs :
        /\ IsPost(i) /\ Returned(i) /\ clientResp[i][1] = [err |-> "Io"]
        /\ response[i].status = 500
        /\ IsGet(j) /\ Returned(j) /\ clientResp[j][1] = [err |-> "ServerSelection"]
        /\ response[j].status = 0

====
